---- MODULE Spec2Model ----
(***************************************************************************)
(* GlassDial (src/src/main.cpp): the destruction state machine, the crack  *)
(* store, the particle store and the idle auto-recovery, as one state      *)
(* machine whose steps are the iterations of loop().                       *)
(*                                                                         *)
(* Numbers.  destructionLevel and the thresholds are floats in the source; *)
(* here they are integers in thousandths (0.15f is 150, 0.003f per encoder *)
(* count is 3, 0.01f per auto-recovery step is 10).  rotationSpeed is in   *)
(* millionths.  Times are in milliseconds and are kept as the two          *)
(* differences the code reads, millis() - lastInteractionTime and          *)
(* millis() - stateStartTime, each saturated just above the largest value  *)
(* it is compared with.                                                    *)
(*                                                                         *)
(* A crack is represented by its generation (its geometry and alpha are    *)
(* only drawn).  A particle is represented by the number of dispersal      *)
(* steps and convergence steps applied to it and by its active flag.       *)
(***************************************************************************)
EXTENDS Integers, Sequences, FiniteSets, TLC

\* ------------------------------------------------------------------ bounds
\* Capacity of the crack store (80 in the source, scaled down).
MAX_CRACKS == 4
\* Size of a particle burst (150 in the source, scaled down).
MAX_PARTICLES == 2
\* Time that passes between two iterations of loop(), in ms.
TickMs == 5001
\* At most this many cracks win the random(100) < 30 draw in one renderCrack.
MaxBranch == 2
\* Dispersal steps after which a particle's alpha is below 0.1 (scaled down).
FadeSteps == 2
\* Convergence steps after which a particle is within 5 px of the centre.
ConvergeSteps == 1
\* Encoder differences sampled in one iteration.
Deltas == {-50, 0, 50}
\* What a read through a dangling Crack reference may return as generation,
\* besides the value that was there before the reallocation.
GarbageGenerations == {-2, 0}

\* --------------------------------------------------------------- constants
CRACK_THRESHOLD == 150
SHATTER_THRESHOLD == 650
AUTO_RECOVER_TIME == 10000
GEN_MAX == 2
\* destructionLevel < 0.05f leaves REBUILD
REBUILD_EXIT == 50
\* millis() - stateStartTime > 800 leaves RECOVERY
RECOVERY_HOLD == 800
\* millis() - lastInteractionTime > 1000 lets SHATTER fall to SILENCE
SILENCE_IDLE == 1000
\* abs(rotationSpeed) < 0.01f, in millionths
SPEED_EPS == 10000
\* destructionLevel -= 0.01f
RECOVER_STEP == 10
\* encoderDelta * 0.003f
INCREASE_RATE == 3
\* CRACK_THRESHOLD + 0.1f
STEP_BACK_MARGIN == 100
\* constrain(destructionLevel, 0.0f, 1.0f)
DAMAGE_MAX == 1000

States == {"NORMAL", "CRACK", "SHATTER", "SILENCE", "REBUILD", "RECOVERY"}

VARIABLES
  currentState,        \* State currentState
  previousState,       \* State previousState
  encoderDelta,        \* int32_t encoderDelta
  rotationSpeed,       \* float rotationSpeed, in millionths
  destructionLevel,    \* float destructionLevel, in thousandths
  cracks,              \* std::vector<Crack> cracks: the generations, in order
  crackCapacity,       \* cracks.capacity()
  particles,           \* std::vector<Particle> particles
  sinceInteraction,    \* millis() - lastInteractionTime, saturated
  sinceStateStart,     \* millis() - stateStartTime, saturated
  cues,                \* the tones asked of playSound/hapticFeedback in this iteration
  pc                   \* "loop": between iterations; "hold": in handleButton's wait loop

vars == <<currentState, previousState, encoderDelta, rotationSpeed, destructionLevel,
          cracks, crackCapacity, particles, sinceInteraction, sinceStateStart, cues, pc>>

\* ----------------------------------------------------------------- helpers
Abs(x) == IF x < 0 THEN -x ELSE x

\* Arduino's constrain(x, lo, hi)
constrain(x, lo, hi) == IF x < lo THEN lo ELSE IF x > hi THEN hi ELSE x

\* the C conversion (int)(a / b) for b > 0: truncation toward zero
TruncDiv(a, b) == IF a >= 0 THEN a \div b ELSE -((-a) \div b)

IdleCap == AUTO_RECOVER_TIME + 1
StartCap == RECOVERY_HOLD + 1
Saturate(t, cap) == IF t > cap THEN cap ELSE t

\* the globals as one record, threaded through the handlers of one iteration
Globals ==
  [st |-> currentState, prev |-> previousState, delta |-> encoderDelta,
   speed |-> rotationSpeed, dmg |-> destructionLevel, cracks |-> cracks,
   cap |-> crackCapacity, parts |-> particles, idle |-> sinceInteraction,
   age |-> sinceStateStart, cues |-> cues]

\* millis() has advanced by dt since the globals were last written
Elapse(s, dt) ==
  [s EXCEPT !.idle = Saturate(@ + dt, IdleCap), !.age = Saturate(@ + dt, StartCap)]

\* playSound / hapticFeedback: fire and forget, recorded in order
Emit(s, cue) == [s EXCEPT !.cues = Append(@, cue)]

\* --------------------------------------------------------- updateDestruction
\* mutant: the constrain() line is missing
updateDestructionUnclamped(s) ==
  [s EXCEPT !.dmg = s.dmg + s.delta * INCREASE_RATE]

updateDestruction(s) ==
  [s EXCEPT !.dmg = constrain(s.dmg + s.delta * INCREASE_RATE, 0, DAMAGE_MAX)]

\* -------------------------------------------------------------- updateEncoder
\* rotationSpeed *= 0.9f; a magnitude under the 0.01 threshold is kept as 0
\* (the only reader is the comparison abs(rotationSpeed) < 0.01f)
Decay(v) ==
  LET w == TruncDiv(v * 9, 10)
  IN  IF Abs(w) < SPEED_EPS THEN 0 ELSE w

\* the read of the encoder register: value is encoderValue before the call,
\* reading the 16-bit count the chip holds; encoderDelta and encoderValue after
sampleEncoder(value, ok, reading) ==
  IF ok THEN [delta |-> reading - value, value |-> reading]
        ELSE [delta |-> 0, value |-> value]

\* mutant: `if (!success) encoderDelta = 0;` is missing
updateEncoderStale(s, ok, d) ==
  LET s1 == IF ok THEN [s EXCEPT !.delta = d] ELSE s
  IN  IF s1.delta # 0
        THEN updateDestruction(
               [s1 EXCEPT !.idle = 0,
                          !.speed = constrain(s1.delta * 100000, -1000000, 1000000)])
        ELSE [s1 EXCEPT !.speed = Decay(@)]

\* ok: the I2C read succeeded; d: newEncVal - encoderValue
updateEncoder(s, ok, d) ==
  LET s1 == [s EXCEPT !.delta = IF ok THEN d ELSE 0]
  IN  IF s1.delta # 0
        THEN updateDestruction(
               [s1 EXCEPT !.idle = 0,
                          !.speed = constrain(s1.delta * 100000, -1000000, 1000000)])
        ELSE [s1 EXCEPT !.speed = Decay(@)]

\* ---------------------------------------------------------------- particles
\* a Particle of generateParticles: nothing applied to it yet, active
NewParticle == [fade |-> 0, near |-> 0, active |-> TRUE]

generateParticles(s) ==
  [s EXCEPT !.parts = [i \in 1..MAX_PARTICLES |-> NewParticle]]

\* the SHATTER/SILENCE branch of updateParticles for one particle: it moves and
\* its alpha fades; alpha < 0.1 clears the active flag
Disperse(p) ==
  [p EXCEPT !.fade = p.fade + 1, !.active = (p.fade + 1 < FadeSteps)]

\* the REBUILD branch: a step toward the centre, or, within 5 px, deactivation
Converge(p) ==
  IF p.near < ConvergeSteps THEN [p EXCEPT !.near = p.near + 1]
                            ELSE [p EXCEPT !.active = FALSE]

updateParticles(s) ==
  [s EXCEPT !.parts =
     [i \in 1..Len(s.parts) |->
        IF ~s.parts[i].active THEN s.parts[i]
        ELSE IF s.st \in {"SHATTER", "SILENCE"} THEN Disperse(s.parts[i])
        ELSE IF s.st = "REBUILD" THEN Converge(s.parts[i])
        ELSE s.parts[i]]]

\* ---------------------------------------------------------------- handleButton
\* mutant: the step back from SHATTER/SILENCE starts from the wrong threshold
StepBackWrongThreshold(s) ==
  LET s1 == [s EXCEPT !.idle = 0]
      s2 == CASE s1.st = "CRACK" ->
                   [s1 EXCEPT !.st = "NORMAL", !.cracks = <<>>, !.dmg = 0]
               [] s1.st \in {"SHATTER", "SILENCE"} ->
                   [s1 EXCEPT !.st = "CRACK", !.parts = <<>>,
                              !.dmg = SHATTER_THRESHOLD + STEP_BACK_MARGIN]
               [] s1.st \in {"REBUILD", "RECOVERY"} ->
                   [s1 EXCEPT !.st = "NORMAL", !.parts = <<>>, !.cracks = <<>>,
                              !.dmg = 0]
               [] OTHER -> s1
  IN  Emit(s2, "STEP_BACK")

\* if (M5.BtnA.wasPressed()) { ... }: one step back
StepBack(s) ==
  LET s1 == [s EXCEPT !.idle = 0]
      s2 == CASE s1.st = "CRACK" ->
                   [s1 EXCEPT !.st = "NORMAL", !.cracks = <<>>, !.dmg = 0]
               [] s1.st \in {"SHATTER", "SILENCE"} ->
                   [s1 EXCEPT !.st = "CRACK", !.parts = <<>>,
                              !.dmg = CRACK_THRESHOLD + STEP_BACK_MARGIN]
               [] s1.st \in {"REBUILD", "RECOVERY"} ->
                   [s1 EXCEPT !.st = "NORMAL", !.parts = <<>>, !.cracks = <<>>,
                              !.dmg = 0]
               [] OTHER -> s1
  IN  Emit(s2, "STEP_BACK")

\* mutant: the reset leaves destructionLevel as it is
FullResetKeepsDamage(s) ==
  Emit([s EXCEPT !.st = "NORMAL", !.parts = <<>>, !.cracks = <<>>, !.idle = 0],
       "FULL_RESET")

\* if (M5.BtnA.pressedFor(1000)) { ... }: full reset, up to the wait loop
FullReset(s) ==
  Emit([s EXCEPT !.st = "NORMAL", !.parts = <<>>, !.cracks = <<>>, !.dmg = 0,
                 !.idle = 0],
       "FULL_RESET")

\* btn: what M5.update() saw: "none", "short" (wasPressed), "long" (pressedFor(1000))
handleButton(s, btn) ==
  CASE btn = "short" -> StepBack(s)
    [] btn = "long" -> FullReset(s)
    [] OTHER -> s

\* ----------------------------------------------------------------- updateState
EnterState(s, st) == [s EXCEPT !.st = st, !.age = 0]

\* case NORMAL
updateNormal(s) ==
  IF s.dmg > CRACK_THRESHOLD
    THEN Emit(Emit(EnterState(s, "CRACK"), "CRACK"), "HAPTIC")
    ELSE s

\* mutant: CRACK -> NORMAL without cracks.clear()
updateCrackKeepsCracks(s) ==
  IF s.dmg > SHATTER_THRESHOLD
    THEN Emit(Emit(generateParticles(EnterState(s, "SHATTER")), "SHATTER"), "HAPTIC")
  ELSE IF s.dmg < CRACK_THRESHOLD
    THEN EnterState(s, "NORMAL")
  ELSE s

\* case CRACK
updateCrack(s) ==
  IF s.dmg > SHATTER_THRESHOLD
    THEN Emit(Emit(generateParticles(EnterState(s, "SHATTER")), "SHATTER"), "HAPTIC")
  ELSE IF s.dmg < CRACK_THRESHOLD
    THEN [EnterState(s, "NORMAL") EXCEPT !.cracks = <<>>]
  ELSE s

\* mutant: the burst is spawned again while dwelling in SHATTER
updateShatterRespawn(s) ==
  LET s1 == Emit(generateParticles(s), "SHATTER")
  IN  IF s1.delta < -2
        THEN Emit(Emit(EnterState(s1, "REBUILD"), "REBUILD"), "HAPTIC")
        ELSE s1

\* case SHATTER
updateShatter(s) ==
  LET s1 == updateParticles(s)
      s2 == IF s1.delta < -2
              THEN Emit(Emit(EnterState(s1, "REBUILD"), "REBUILD"), "HAPTIC")
              ELSE s1
  IN  IF s2.idle > SILENCE_IDLE /\ Abs(s2.speed) < SPEED_EPS
        THEN EnterState(s2, "SILENCE")
        ELSE s2

\* mutant: the test for reverse rotation also takes a still dial
updateSilenceLoose(s) ==
  IF s.delta <= 0 THEN Emit(EnterState(s, "REBUILD"), "REBUILD") ELSE s

\* case SILENCE
updateSilence(s) ==
  IF s.delta < 0 THEN Emit(EnterState(s, "REBUILD"), "REBUILD") ELSE s

\* case REBUILD
updateRebuild(s) ==
  LET s1 == updateParticles(s)
  IN  IF s1.dmg < REBUILD_EXIT
        THEN Emit(Emit(EnterState(s1, "RECOVERY"), "RECOVERY"), "HAPTIC")
        ELSE s1

\* case RECOVERY
updateRecovery(s) ==
  IF s.age > RECOVERY_HOLD
    THEN [EnterState(s, "NORMAL") EXCEPT !.parts = <<>>, !.cracks = <<>>, !.dmg = 0]
    ELSE s

updateState(s) ==
  LET s0 == [s EXCEPT !.prev = s.st]
  IN  CASE s0.st = "NORMAL" -> updateNormal(s0)
        [] s0.st = "CRACK" -> updateCrack(s0)
        [] s0.st = "SHATTER" -> updateShatter(s0)
        [] s0.st = "SILENCE" -> updateSilence(s0)
        [] s0.st = "REBUILD" -> updateRebuild(s0)
        [] s0.st = "RECOVERY" -> updateRecovery(s0)

\* ------------------------------------------------------------- the crack store
\* cracks.push_back(crack) on v = [cracks, cap, moved]: at size() = capacity()
\* the vector doubles its buffer and every reference into the old one dangles
push_back(v, gen) ==
  IF Len(v.cracks) = v.cap
    THEN [cracks |-> Append(v.cracks, gen),
          cap |-> IF v.cap = 0 THEN 1 ELSE 2 * v.cap,
          moved |-> TRUE]
    ELSE [v EXCEPT !.cracks = Append(@, gen)]

\* mutant: the capacity check is missing
generateCrackUnchecked(v, generation) == push_back(v, generation)

generateCrack(v, generation) ==
  IF Len(v.cracks) >= MAX_CRACKS THEN v ELSE push_back(v, generation)

\* (int)((destructionLevel - CRACK_THRESHOLD) / (SHATTER_THRESHOLD - CRACK_THRESHOLD) * MAX_CRACKS)
targetCracks(dmg) ==
  TruncDiv((dmg - CRACK_THRESHOLD) * MAX_CRACKS, SHATTER_THRESHOLD - CRACK_THRESHOLD)

\* cracks.size() < targetCracks: size_t against int, the int converted to unsigned
SizeLess(size, target) == IF target < 0 THEN TRUE ELSE size < target

\* while (cracks.size() < targetCracks && cracks.size() < MAX_CRACKS) generateCrack(.., 0)
RECURSIVE SeedLoop(_, _)
SeedLoop(v, target) ==
  IF SizeLess(Len(v.cracks), target) /\ Len(v.cracks) < MAX_CRACKS
    THEN SeedLoop(generateCrack(v, 0), target)
    ELSE v

\* crack.generation as the loop body reads it through `auto& crack`: the element,
\* unless the buffer has moved since the loop took begin() and end(); then the
\* read is of freed storage and returns the old value (junk.intact) or junk.gen
ReadGeneration(v, i, junk) ==
  IF v.moved /\ ~junk.intact THEN junk.gen ELSE v.cracks[i]

\* for (auto& crack : cracks) { if (crack.generation < 2 && random(100) < 30) ... }
\* over the n elements the vector had when the loop began; wins: the indices whose
\* random(100) is below 30
RECURSIVE BranchLoop(_, _, _, _, _)
BranchLoop(v, i, n, wins, junk) ==
  IF i > n THEN v
  ELSE LET g == ReadGeneration(v, i, junk)
       IN  IF g < GEN_MAX /\ i \in wins
             THEN BranchLoop(generateCrack(v, g + 1), i + 1, n, wins, junk)
             ELSE BranchLoop(v, i + 1, n, wins, junk)

Intact == [intact |-> TRUE, gen |-> 0]
StaleReads == {Intact} \cup {[intact |-> FALSE, gen |-> g] : g \in GarbageGenerations}

Seeded(s) ==
  SeedLoop([cracks |-> s.cracks, cap |-> s.cap, moved |-> FALSE], targetCracks(s.dmg))

renderCrack(s, wins, junk) ==
  LET v0 == [Seeded(s) EXCEPT !.moved = FALSE]
      v1 == BranchLoop(v0, 1, Len(v0.cracks), wins, junk)
  IN  [s EXCEPT !.cracks = v1.cracks, !.cap = v1.cap]

\* the outcomes of random() and of reads of freed storage in one renderCrack:
\* at most k cracks win the draw, a stale read returns one of reads
Draws(s, k, reads) ==
  {[wins |-> w, junk |-> j] :
     w \in {x \in SUBSET (1..Len(Seeded(s).cracks)) : Cardinality(x) <= k},
     j \in reads}

\* renderState: only renderCrack changes what is modelled
renderState(s, draw) ==
  IF s.st = "CRACK" THEN renderCrack(s, draw.wins, draw.junk) ELSE s

RenderOutcomes(s, k, reads) ==
  IF s.st = "CRACK" THEN {renderState(s, d) : d \in Draws(s, k, reads)} ELSE {s}

\* ------------------------------------------------------------------ autoRecover
\* mutant: the timeout only restarts the idle timer
autoRecoverNoStep(s) ==
  IF s.st # "NORMAL" /\ s.idle > AUTO_RECOVER_TIME THEN [s EXCEPT !.idle = 0] ELSE s

\* mutant: the test currentState != NORMAL is missing
autoRecoverAnyState(s) ==
  IF s.idle > AUTO_RECOVER_TIME
    THEN LET s1 == IF s.dmg > 0
                     THEN IF s.dmg - RECOVER_STEP <= 0
                            THEN Emit([EnterState(s, "RECOVERY") EXCEPT
                                         !.dmg = 0, !.parts = <<>>, !.cracks = <<>>],
                                      "RECOVERY")
                            ELSE [s EXCEPT !.dmg = s.dmg - RECOVER_STEP]
                     ELSE s
         IN  [s1 EXCEPT !.idle = 0]
    ELSE s

autoRecover(s) ==
  IF s.st # "NORMAL" /\ s.idle > AUTO_RECOVER_TIME
    THEN LET s1 == IF s.dmg > 0
                     THEN IF s.dmg - RECOVER_STEP <= 0
                            THEN Emit([EnterState(s, "RECOVERY") EXCEPT
                                         !.dmg = 0, !.parts = <<>>, !.cracks = <<>>],
                                      "RECOVERY")
                            ELSE [s EXCEPT !.dmg = s.dmg - RECOVER_STEP]
                     ELSE s
         IN  [s1 EXCEPT !.idle = 0]
    ELSE s

\* ------------------------------------------------------------------------ loop
\* The two halves of loop() give sets of outcomes, each handler applied to the
\* value the one before it left.
\* the part of loop() before handleButton returns (one outcome), entered with
\* globals g, dt after they were written
BeginFrom(g, dt, ok, d, btn) ==
  {handleButton(e, btn) :
     e \in {updateEncoder([Elapse(g, dt) EXCEPT !.cues = <<>>], ok, d)}}

Begin(ok, d, btn) == BeginFrom(Globals, TickMs, ok, d, btn)

\* the part of loop() after handleButton
Settle(s, k, reads) ==
  UNION {{autoRecover(r) : r \in RenderOutcomes(u, k, reads)} : u \in {updateState(s)}}

Commit(s) ==
  /\ currentState' = s.st
  /\ previousState' = s.prev
  /\ encoderDelta' = s.delta
  /\ rotationSpeed' = s.speed
  /\ destructionLevel' = s.dmg
  /\ cracks' = s.cracks
  /\ crackCapacity' = s.cap
  /\ particles' = s.parts
  /\ sinceInteraction' = s.idle
  /\ sinceStateStart' = s.age
  /\ cues' = s.cues

Samples == {[ok |-> FALSE, d |-> 0]} \cup {[ok |-> TRUE, d |-> x] : x \in Deltas}

\* setup()
Init ==
  /\ currentState = "NORMAL"
  /\ previousState = "NORMAL"
  /\ encoderDelta = 0
  /\ rotationSpeed = 0
  /\ destructionLevel = 0
  /\ cracks = <<>>
  /\ crackCapacity = 0
  /\ particles = <<>>
  /\ sinceInteraction = 0
  /\ sinceStateStart = 0
  /\ cues = <<"INIT">>
  /\ pc = "loop"

\* one iteration of loop() in which no long press is recognised; m: the encoder
\* sample, k and reads: see Draws
Iteration(m, btn, k, reads) ==
  /\ pc = "loop"
  /\ \E b \in Begin(m.ok, m.d, btn) : \E s \in Settle(b, k, reads) : Commit(s)
  /\ pc' = "loop"

\* an iteration in which pressedFor(1000) holds: handleButton resets and waits
LongPress(m) ==
  /\ pc = "loop"
  /\ \E b \in Begin(m.ok, m.d, "long") : Commit(b)
  /\ pc' = "hold"

\* while (M5.BtnA.isPressed()) { M5.update(); delay(10); }: still pressed
HoldWait ==
  /\ pc = "hold"
  /\ \E g \in {Elapse(Globals, TickMs)} : Commit(g)
  /\ pc' = "hold"

\* the button is released: handleButton returns and the iteration goes on
Release(k, reads) ==
  /\ pc = "hold"
  /\ \E g \in {Globals} : \E s \in Settle(g, k, reads) : Commit(s)
  /\ pc' = "loop"

\* The dial and the button at will, idle periods included; no crack wins the
\* branching draw.
Iterate == \E m \in Samples, btn \in {"none", "short"} : Iteration(m, btn, 0, {Intact})
Press == \E m \in Samples : LongPress(m)
Hold == HoldWait
LetGo == Release(0, {Intact})

Next == Iterate \/ Press \/ Hold \/ LetGo

Spec == Init /\ [][Next]_vars

\* The dial spun forward fast, crept back a notch or two per iteration or left
\* alone, the button pressed briefly at will; no crack wins the draw. loop() is
\* called again for ever, so an iteration that can change the state is
\* eventually run.
SlowDeltas == {334, -2, 0}
Creeping == {[ok |-> FALSE, d |-> 0]} \cup {[ok |-> TRUE, d |-> x] : x \in SlowDeltas}
CreepIterate == \E m \in Creeping, btn \in {"none", "short"} : Iteration(m, btn, 0, {Intact})

CreepNext == CreepIterate

CreepSpec == Init /\ [][CreepNext]_vars /\ WF_vars(CreepNext)

\* The dial kept turning (every sample is a non-zero difference) and the button at
\* will; up to MaxBranch cracks win the draw in a renderCrack and a read through
\* a dangling reference returns the old value or junk.
Turning == {m \in Samples : m.ok /\ m.d # 0}
TurnIterate == \E m \in Turning, btn \in {"none", "short"} : Iteration(m, btn, MaxBranch, StaleReads)
TurnPress == \E m \in Turning : LongPress(m)
TurnHold == HoldWait
TurnLet == Release(MaxBranch, StaleReads)

FractureNext == TurnIterate \/ TurnPress \/ TurnHold \/ TurnLet

FractureSpec == Init /\ [][FractureNext]_vars

\* ======================================================================
\* Properties
\* ======================================================================
Cued(c) == \E i \in 1..Len(cues) : cues[i] = c

\* C1: in every reachable state the damage scalar lies in [0, 1] (0..DAMAGE_MAX
\* thousandths), whatever the rotation samples, presses and idle periods were.
DamageInRange == destructionLevel >= 0 /\ destructionLevel <= DAMAGE_MAX

\* the dial turned forward up to the ceiling in SILENCE, which takes forward
\* rotation, an idle period and forward rotation again
DamageAtCeiling ==
  currentState = "SILENCE" /\ destructionLevel = DAMAGE_MAX /\ encoderDelta > 0

\* C2: the crack store never holds more than MAX_CRACKS cracks nor the particle
\* store more than MAX_PARTICLES particles; and from every reachable CRACK state
\* a further renderCrack leaves the crack store within capacity whichever cracks
\* win the draw and whatever a stale read returns (the store only grows inside
\* renderCrack, so its size during the call is at most its size after it).
StoresWithinCapacity ==
  /\ Len(cracks) <= MAX_CRACKS
  /\ Len(particles) <= MAX_PARTICLES
  /\ currentState = "CRACK" =>
       \A w \in SUBSET (1..Len(Seeded(Globals).cracks)), j \in StaleReads :
         Len(renderCrack(Globals, w, j).cracks) <= MAX_CRACKS

\* both stores full, with cracks left that could still branch
BothStoresFull ==
  /\ Len(cracks) = MAX_CRACKS
  /\ Len(particles) = MAX_PARTICLES
  /\ \E i \in 1..Len(cracks) : cracks[i] < GEN_MAX

\* C3: a long press, whatever was sampled from the dial in the same iteration,
\* leaves damage 0, NORMAL and both stores empty when that iteration ends (the
\* wait loop in handleButton has ended and the rest of loop() has run).
FullResetSettles ==
  [][(pc = "hold" /\ pc' = "loop") =>
       /\ destructionLevel' = 0
       /\ currentState' = "NORMAL"
       /\ cracks' = <<>>
       /\ particles' = <<>>]_vars

\* the iteration of a long press has ended; the dial was turned forward in it and
\* the crack store had been in use
FullResetDone ==
  pc = "loop" /\ Cued("FULL_RESET") /\ encoderDelta > 0 /\ crackCapacity > 0

\* the iteration that led to this state sampled no rotation and no button event
NoInput == pc = "loop" /\ encoderDelta = 0 /\ ~Cued("STEP_BACK") /\ ~Cued("FULL_RESET")

Pristine == currentState = "NORMAL" /\ cracks = <<>> /\ particles = <<>>

\* what is left of the idle recovery: the damage first, then the time to the next
\* auto-recovery step
IdleMeasure == destructionLevel * (IdleCap + 1) + (IdleCap - sinceInteraction)

\* C4: from SILENCE with damage 1, left alone, the system reaches NORMAL with both
\* stores empty; every idle iteration on the way either brings the next
\* auto-recovery step nearer or lowers the damage (so the number of iterations is
\* bounded by IdleMeasure), or ends in RECOVERY with damage 0 and both stores
\* empty, and an idle iteration in RECOVERY brings the end of its hold nearer or
\* ends in NORMAL with both stores empty.
IdleFromSilence ==
  /\ (currentState = "SILENCE" /\ destructionLevel = DAMAGE_MAX /\ NoInput)
       ~> (Pristine \/ ~NoInput)
  /\ [][(currentState = "SILENCE" /\ destructionLevel > 0 /\ NoInput') =>
          \/ currentState' = "SILENCE" /\ IdleMeasure' < IdleMeasure
          \/ /\ currentState' = "RECOVERY"
             /\ destructionLevel' = 0
             /\ cracks' = <<>>
             /\ particles' = <<>>]_vars
  /\ [][(currentState = "RECOVERY" /\ destructionLevel = 0 /\ NoInput') =>
          \/ Pristine'
          \/ currentState' = "RECOVERY" /\ sinceStateStart' > sinceStateStart]_vars

\* the idle recovery from SILENCE has just emptied both stores that were in use
SilenceRecovered ==
  /\ currentState = "RECOVERY"
  /\ previousState = "SILENCE"
  /\ NoInput
  /\ Cued("RECOVERY")
  /\ crackCapacity > 0

\* C5: whatever the state, if from some iteration on there is no input at all,
\* the category eventually becomes NORMAL.
IdleEndsNormal == []([]NoInput => <>(currentState = "NORMAL"))

\* the category the threshold table assigns to damage d; at a threshold itself
\* either neighbour is accepted
TableAllows(st, d) ==
  \/ st = "NORMAL" /\ d <= CRACK_THRESHOLD
  \/ st = "CRACK" /\ d >= CRACK_THRESHOLD /\ d <= SHATTER_THRESHOLD
  \/ st \in {"SHATTER", "SILENCE"} /\ d >= SHATTER_THRESHOLD

\* C6: at the end of every iteration whose category is neither REBUILD nor
\* RECOVERY, the category is the one the threshold table assigns to the damage.
CategoryFollowsTable ==
  (pc = "loop" /\ currentState \notin {"REBUILD", "RECOVERY"}) =>
    TableAllows(currentState, destructionLevel)

\* C7: no iteration that starts in REBUILD or RECOVERY ends with more damage than
\* it started with.
RebuildNeverIncreases ==
  [][(pc = "loop" /\ currentState \in {"REBUILD", "RECOVERY"}) =>
       destructionLevel' <= destructionLevel]_vars

SpawnCues == Cardinality({i \in 1..Len(cues) : cues[i] = "SHATTER"})

\* C8: the iteration that enters SHATTER spawns the burst (MAX_PARTICLES fresh
\* particles) with one SHATTER cue; an iteration that starts in SHATTER adds no
\* particle, leaves no fresh particle in the store and emits no SHATTER cue,
\* whatever the rotation and the button.
BurstOncePerEntry ==
  [][/\ (currentState # "SHATTER" /\ currentState' = "SHATTER") =>
          /\ particles' = [i \in 1..MAX_PARTICLES |-> NewParticle]
          /\ SpawnCues' = 1
     /\ (pc = "loop" /\ currentState = "SHATTER") =>
          /\ Len(particles') <= Len(particles)
          /\ \A i \in 1..Len(particles') : particles'[i] # NewParticle
          /\ SpawnCues' = 0]_vars

\* an iteration that started in SHATTER with the dial turning has ended in
\* SHATTER, the burst still in flight
DwellingInShatter ==
  /\ currentState = "SHATTER"
  /\ previousState = "SHATTER"
  /\ encoderDelta # 0
  /\ \E i \in 1..Len(particles) : particles[i].active

\* C9: every crack in the store has a generation in 0..GEN_MAX (and so no crack
\* of generation GEN_MAX has produced a child, whose generation would be
\* GEN_MAX + 1).
GenerationsInRange == \A i \in 1..Len(cracks) : cracks[i] \in 0..GEN_MAX

\* two successive iterations of loop() from globals g with a zero sample, no
\* button event and millis() standing still; no crack wins the draw
ZeroTicks(g) == UNION {Settle(b, 0, {Intact}) : b \in BeginFrom(g, 0, TRUE, 0, "none")}

Core(g) == <<g.dmg, g.st, g.cracks, g.parts, g.idle, g.age>>

\* C10: from every reachable state, the second of two iterations with zero
\* delta, no button event and zero elapsed time leaves the core state (damage,
\* category, both stores, timers) as the first left it and emits no cue the
\* first emitted.
ZeroTickIdempotent ==
  pc = "loop" =>
    \A a \in ZeroTicks(Globals) : \A b \in ZeroTicks(a) :
      /\ Core(b) = Core(a)
      /\ \A i \in 1..Len(b.cues), j \in 1..Len(a.cues) : b.cues[i] # a.cues[j]

\* C11: a damage equal to a threshold resolves to the higher category: at the
\* end of an iteration NORMAL never stands with damage CRACK_THRESHOLD, nor
\* CRACK with damage SHATTER_THRESHOLD.
BoundaryResolvesHigher ==
  pc = "loop" =>
    /\ ~(currentState = "NORMAL" /\ destructionLevel = CRACK_THRESHOLD)
    /\ ~(currentState = "CRACK" /\ destructionLevel = SHATTER_THRESHOLD)

\* the order in which an idle device passes through the categories
IdleRank(st) ==
  CASE st = "CRACK" -> 0
    [] st \in {"SHATTER", "REBUILD"} -> 1
    [] st = "SILENCE" -> 2
    [] st = "RECOVERY" -> 3
    [] st = "NORMAL" -> 4

\* C12: over iterations with zero delta and no button event the category only
\* moves forward in the order IdleRank (so none is left and entered again, and
\* each transition happens once at most), and an iteration that keeps the
\* category emits no cue, empties no store and spawns no burst.
NoFlickerWhenIdle ==
  [][(pc = "loop" /\ NoInput') =>
       /\ IdleRank(currentState') >= IdleRank(currentState)
       /\ currentState' = currentState =>
            /\ cues' = <<>>
            /\ cracks # <<>> => cracks' # <<>>
            /\ particles # <<>> => particles' # <<>>
            /\ \A i \in 1..Len(particles') : particles'[i] # NewParticle]_vars

\* an idle CRACK has healed into NORMAL, some damage left
IdleCrackHealed ==
  /\ currentState = "NORMAL"
  /\ previousState = "CRACK"
  /\ NoInput
  /\ destructionLevel > 0
  /\ crackCapacity > 0

\* C13: an iteration without input in which the idle time passes the timeout,
\* begun in CRACK, SHATTER or SILENCE with damage above 0, ends in REBUILD with
\* the REBUILD cue emitted and the state timer restarted.
IdleTimeoutRebuilds ==
  [][(/\ pc = "loop"
      /\ currentState \in {"CRACK", "SHATTER", "SILENCE"}
      /\ destructionLevel > 0
      /\ sinceInteraction + TickMs > AUTO_RECOVER_TIME
      /\ NoInput') =>
       /\ currentState' = "REBUILD"
       /\ Cued("REBUILD")'
       /\ sinceStateStart' = 0]_vars

\* C14: an iteration begun in REBUILD (no button event) ends in RECOVERY exactly
\* when the damage is at most 0.5 (500 thousandths); one begun in RECOVERY ends in NORMAL exactly
\* when the damage is at most 0, and then the damage is 0 and both stores are
\* empty.
RecoveryExitsByDamage ==
  [][(pc = "loop" /\ pc' = "loop" /\ ~Cued("STEP_BACK")') =>
       /\ currentState = "REBUILD" =>
            (currentState' = "RECOVERY" <=> destructionLevel' <= 500)
       /\ currentState = "RECOVERY" =>
            /\ currentState' = "NORMAL" <=> destructionLevel' <= 0
            /\ currentState' = "NORMAL" => Pristine' /\ destructionLevel' = 0]_vars

\* C15: a short press in CRACK ends the iteration in NORMAL with damage 0, one
\* in SHATTER or SILENCE ends it in CRACK with the damage inside CRACK's range,
\* whatever was sampled from the dial; and from CRACK with damage within its
\* range, or NORMAL with damage within its range, iterations without input
\* never raise the category or the damage, so the category left is not entered
\* again.
StepBackHolds ==
  [][/\ (pc = "loop" /\ Cued("STEP_BACK")' /\ currentState = "CRACK") =>
          currentState' = "NORMAL" /\ destructionLevel' = 0
     /\ (pc = "loop" /\ Cued("STEP_BACK")' /\ currentState \in {"SHATTER", "SILENCE"}) =>
          /\ currentState' = "CRACK"
          /\ destructionLevel' > CRACK_THRESHOLD
          /\ destructionLevel' < SHATTER_THRESHOLD
     /\ (pc = "loop" /\ NoInput' /\ currentState = "CRACK"
           /\ destructionLevel <= SHATTER_THRESHOLD) =>
          currentState' \in {"CRACK", "NORMAL"} /\ destructionLevel' <= destructionLevel
     /\ (pc = "loop" /\ NoInput' /\ currentState = "NORMAL"
           /\ destructionLevel <= CRACK_THRESHOLD) =>
          currentState' = "NORMAL" /\ destructionLevel' <= destructionLevel]_vars

\* a short press has just taken SILENCE back to CRACK while the dial was turned
\* forward
SteppedBackToCrack ==
  /\ pc = "loop"
  /\ currentState = "CRACK"
  /\ Cued("STEP_BACK")
  /\ encoderDelta > 0
  /\ destructionLevel = CRACK_THRESHOLD + STEP_BACK_MARGIN
  /\ sinceStateStart > 0

EncoderReadings == {-32768, -1, 0, 1, 32767}

\* loop() run from the globals as they are, with the given sample and button
TickOutcomes(ok, d, btn) == UNION {Settle(b, 0, {Intact}) : b \in Begin(ok, d, btn)}

\* C16: a failed read leaves encoderValue as it was and gives encoderDelta 0,
\* as a successful read of an unmoved dial does; updateEncoder then leaves the
\* damage and the idle time as they were, and the whole iteration ends as one
\* with a successful sample of delta 0 ends, whatever the dial did, whatever
\* the previous encoderDelta was and whatever the button does.
FailedSampleIsZeroDelta ==
  pc = "loop" =>
    /\ \A v \in EncoderReadings, r \in EncoderReadings :
         /\ sampleEncoder(v, FALSE, r) = [delta |-> 0, value |-> v]
         /\ sampleEncoder(v, FALSE, r) = sampleEncoder(v, TRUE, v)
    /\ \A d \in Deltas :
         LET g == Elapse(Globals, TickMs)
             e == updateEncoder(g, FALSE, d)
         IN  e.delta = 0 /\ e.dmg = g.dmg /\ e.idle = g.idle
    /\ \A d \in Deltas, btn \in {"none", "short", "long"} :
         Begin(FALSE, d, btn) = Begin(TRUE, 0, btn)
    /\ \A d \in Deltas, btn \in {"none", "short"} :
         TickOutcomes(FALSE, d, btn) = TickOutcomes(TRUE, 0, btn)

\* REBUILD an iteration after the dial was turned back: encoderDelta is 0 now,
\* and the delta of the iteration before would have lowered the damage again
\* had it been used once more
AfterReverse ==
  /\ pc = "loop"
  /\ currentState = "REBUILD"
  /\ previousState = "REBUILD"
  /\ encoderDelta = 0
  /\ rotationSpeed < 0

\* C17: no step other than one that ends in NORMAL having begun elsewhere takes
\* the crack store or the particle store from non-empty to empty.
ClearedOnlyIntoNormal ==
  [][~(currentState # "NORMAL" /\ currentState' = "NORMAL") =>
       /\ cracks # <<>> => cracks' # <<>>
       /\ particles # <<>> => particles' # <<>>]_vars

\* C18: an iteration of loop() ends whatever the button does: once handleButton
\* has recognised a long press, the program's next step ends the iteration,
\* whether the button is still held or not.
TickEndsWhileHeld == [][pc = "hold" => pc' = "loop"]_vars

\* C19: at the end of every iteration, NORMAL has both stores empty and CRACK has
\* the particle store empty.
StoresMatchCategory ==
  pc = "loop" =>
    /\ currentState = "NORMAL" => cracks = <<>> /\ particles = <<>>
    /\ currentState \in {"NORMAL", "CRACK"} => particles = <<>>

\* NORMAL again after a recovery that emptied stores that had been in use
RecoveredToNormal ==
  /\ pc = "loop"
  /\ currentState = "NORMAL"
  /\ previousState = "RECOVERY"
  /\ crackCapacity > 0
  /\ encoderDelta = 0

\* C20: at the end of every iteration in NORMAL the damage is at most
\* CRACK_THRESHOLD, and an iteration without input begun in NORMAL ends in
\* NORMAL with the damage as it was, however long the device has idled.
NormalKeepsResidue ==
  /\ []((pc = "loop" /\ currentState = "NORMAL") => destructionLevel <= CRACK_THRESHOLD)
  /\ [][(pc = "loop" /\ currentState = "NORMAL" /\ NoInput') =>
          currentState' = "NORMAL" /\ destructionLevel' = destructionLevel]_vars

\* NORMAL with damage left over from CRACK, idle beyond the timeout
ResidueAfterTimeout ==
  /\ pc = "loop"
  /\ currentState = "NORMAL"
  /\ previousState = "NORMAL"
  /\ destructionLevel > 0
  /\ sinceInteraction > AUTO_RECOVER_TIME
  /\ NoInput

====
